---- MODULE Spec2Model ----
(***************************************************************************)
(* Model of duplicate_image_remover.py: DuplicateImageRemover              *)
(* .group_duplicates, .select_representative and .process_duplicates, and  *)
(* the input check of main().                                              *)
(*                                                                         *)
(* An image is its path <<directory, file name>>.  A Python set is a TLA+  *)
(* set; the order in which a Python set is iterated is not fixed by the    *)
(* language (it follows the string hashes, which change from one           *)
(* interpreter run to the next), so every iteration over a set picks its   *)
(* order nondeterministically.  The similarity oracle (imagededup) and the *)
(* file system are the environment: the oracle returns any duplicate map,  *)
(* and every getsize / copy2 / remove / makedirs call may succeed or fail. *)
(* The report writer (save_results_to_file) touches no state of the model. *)
(***************************************************************************)
EXTENDS Integers, Sequences, FiniteSets, TLC

\* ------------------------------------------------------------------ bounds
NImages == 4
MaxEdges == 2
MaxSize == 2

\* ------------------------------------------------------------------ images
\* The i-th image of the tree under test: every image lies in a directory of
\* its own, and the images 2k-1 and 2k carry the same file name.
Path(i) == <<i, (i + 1) \div 2>>

Images == {Path(i) : i \in 1..NImages}

\* os.path.basename: the last segment of the path.
basename(img_path) == img_path[2]

Names == {basename(p) : p \in Images}

\* Python's None, where an image is expected.
None == <<>>

\* What os.path.getsize does for one file: it raises OSError (ok = FALSE) or
\* returns the size in bytes.
GetsizeResults ==
  {[ok |-> FALSE, size |-> 0]} \cup {[ok |-> TRUE, size |-> s] : s \in 0..MaxSize}

\* The orders in which a set can be iterated.
RECURSIVE Orders(_)
Orders(S) ==
  IF S = {} THEN {<<>>}
  ELSE UNION {{<<x>> \o t : t \in Orders(S \ {x})} : x \in S}

\* ------------------------------------------------------------ duplicate map
Pairs == Images \X Images

RECURSIVE EdgeSets(_)
EdgeSets(k) ==
  IF k = 0 THEN {{}}
  ELSE LET prev == EdgeSets(k - 1)
       IN  prev \cup {s \cup {e} : s \in prev, e \in Pairs}

\* The duplicate maps the oracle may return: image -> the images it lists (the
\* code only tests the list for emptiness and adds its members to sets, so a
\* list is modelled by the set of its members), at most MaxEdges entries in all.
DuplicateMaps ==
  {[i \in Images |-> {j \in Images : <<i, j>> \in E}] : E \in EdgeSets(MaxEdges)}

EmptyMap == [i \in Images |-> {}]

\* --------------------------------------------------------- group_duplicates
\* graph built without the reverse edge (graph[dup_image].add(main_image) lost).
GraphDirected(dups) ==
  [n \in Images |-> dups[n]]

\* The adjacency built from the map: for every entry with a non-empty list, an
\* edge between the key and each listed image, in both directions.
Graph(dups) ==
  [n \in Images |-> dups[n] \cup {m \in Images : n \in dups[m]}]

\* all_images of group_duplicates: the keys with a non-empty list and the
\* members of the lists.
GraphNodes(dups) ==
  {m \in Images : dups[m] # {}} \cup UNION {dups[m] : m \in Images}

\* Every component is kept, a component of one member included.
EmittedAny(groups, grp) ==
  IF Cardinality(grp) > 0 THEN Append(groups, grp) ELSE groups

\* A component is kept only when it has more than two members.
EmittedAboveTwo(groups, grp) ==
  IF Cardinality(grp) > 2 THEN Append(groups, grp) ELSE groups

\* if len(group) > 1: groups.append(group)
Emitted(groups, grp) ==
  IF Cardinality(grp) > 1 THEN Append(groups, grp) ELSE groups

\* ---------------------------------------------------- select_representative
\* The loop over the group in iteration order ord; size[p] is what getsize
\* gives for p.
RECURSIVE BestOf(_, _, _, _)
BestOf(ord, size, best_image, best_size) ==
  IF ord = <<>> THEN best_image
  ELSE LET image_path == Head(ord)
       IN  IF size[image_path].ok /\ size[image_path].size > best_size
           THEN BestOf(Tail(ord), size, image_path, size[image_path].size)
           ELSE BestOf(Tail(ord), size, best_image, best_size)

\* return best_image or list(group)[0]; list(group) is in iteration order.
\* select_representative without the fallback to the first image of the group.
select_representativeNoFallback(ord, size) == BestOf(ord, size, None, 0)

select_representative(ord, size) ==
  LET best_image == BestOf(ord, size, None, 0)
  IN  IF best_image # None THEN best_image ELSE ord[1]

\* ------------------------------------------------------- process_duplicates
\* The group entry with to_remove = group (the representative not taken out).
GroupDataKeepsNone(i, grp, representative) ==
  [group_id |-> i,
   total_count |-> Cardinality(grp),
   representative |-> representative,
   duplicates |-> grp,
   remove_count |-> Cardinality(grp)]

\* group_data of one group; list(to_remove) is a list without repetition, kept
\* as the set of its members.
GroupData(i, grp, representative) ==
  LET to_remove == grp \ {representative}
  IN  [group_id |-> i,
       total_count |-> Cardinality(grp),
       representative |-> representative,
       duplicates |-> to_remove,
       remove_count |-> Cardinality(to_remove)]

\* find_all_images that returns an empty list for a missing root.
FindAllImagesNoRaise(rootState) ==
  [raised |-> FALSE, images |-> IF rootState = "populated" THEN Images ELSE {}]

\* find_all_images: raises FileNotFoundError for a missing root, else returns
\* the images under it.
FindAllImages(rootState) ==
  IF rootState = "missing" THEN [raised |-> TRUE, images |-> {}]
  ELSE [raised |-> FALSE, images |-> IF rootState = "populated" THEN Images ELSE {}]

\* The try block with the copy failure swallowed: the removal is attempted anyway.
TryFileRemoveAnyway(backup, copy_ok, remove_ok) ==
  [copied |-> backup /\ copy_ok, removed |-> remove_ok,
   failed |-> ~remove_ok, caught |-> TRUE]

\* The try block with a failure escaping the loop.
TryFileAbort(backup, copy_ok, remove_ok) ==
  IF backup /\ ~copy_ok
  THEN [copied |-> FALSE, removed |-> FALSE, failed |-> TRUE, caught |-> FALSE]
  ELSE IF ~remove_ok
  THEN [copied |-> backup, removed |-> FALSE, failed |-> TRUE, caught |-> FALSE]
  ELSE [copied |-> backup, removed |-> TRUE, failed |-> FALSE, caught |-> TRUE]

\* The try block with the failure of os.remove suppressed and counted as a
\* removal.
TryFileMissingOk(backup, copy_ok, remove_ok) ==
  IF backup /\ ~copy_ok
  THEN [copied |-> FALSE, removed |-> FALSE, failed |-> TRUE, caught |-> TRUE]
  ELSE [copied |-> backup, removed |-> TRUE, failed |-> FALSE, caught |-> TRUE]

\* The try block of the deletion loop for one file: copy2 when a backup
\* directory is set, then remove; an exception of either skips the rest of the
\* block and is caught by "except Exception", which prints the failure.
TryFile(backup, copy_ok, remove_ok) ==
  IF backup /\ ~copy_ok
  THEN [copied |-> FALSE, removed |-> FALSE, failed |-> TRUE, caught |-> TRUE]
  ELSE IF ~remove_ok
  THEN [copied |-> backup, removed |-> FALSE, failed |-> TRUE, caught |-> TRUE]
  ELSE [copied |-> backup, removed |-> TRUE, failed |-> FALSE, caught |-> TRUE]

NoResult == [status |-> "running"]

VARIABLES
  pc,                \* where the run is
  root,              \* the source root: "missing", "empty" or "populated"
  delete,            \* process_duplicates' delete argument
  backup_dir,        \* whether a backup directory is given
  all_images,        \* find_all_images' result
  duplicates,        \* the oracle's duplicate map
  todo,              \* group_duplicates: all_images not yet reached by the for loop
  visited,           \* group_duplicates: visited
  stack,             \* group_duplicates: stack
  group,             \* group_duplicates: group
  duplicate_groups,  \* the groups returned by group_duplicates
  group_info,        \* the group entries
  total_duplicates,
  total_to_remove,
  gi,                \* deletion loop: index of the current group entry
  pending,           \* deletion loop: files of the current entry not yet reached
  deleted_count,
  files,             \* the images present under the source root
  backup_exists,     \* whether the backup directory exists
  backup_files,      \* backup directory: file name -> the image whose copy it holds
  copied,            \* the images whose copy2 succeeded
  outcome,           \* per image: "none", "removed", "copy_failed", "remove_failed"
  result,            \* the returned dictionary
  exception,         \* the exception that left process_duplicates
  sel_group,         \* select_representative alone: the group
  sel_size,          \* select_representative alone: the file sizes
  sel_first,         \* the result of a first call
  sel_second         \* the result of a second call on the same group and files

procVars ==
  <<pc, root, delete, backup_dir, all_images, duplicates, todo, visited, stack,
    group, duplicate_groups, group_info, total_duplicates, total_to_remove, gi,
    pending, deleted_count, files, backup_exists, backup_files, copied, outcome,
    result, exception>>

selVars == <<sel_group, sel_size, sel_first, sel_second>>

vars == <<procVars, selVars>>

\* The locals of a run before it starts.
IdleLocals ==
  /\ all_images = {}
  /\ duplicates = EmptyMap
  /\ todo = {}
  /\ visited = {}
  /\ stack = <<>>
  /\ group = {}
  /\ duplicate_groups = <<>>
  /\ group_info = <<>>
  /\ total_duplicates = 0
  /\ total_to_remove = 0
  /\ gi = 0
  /\ pending = {}
  /\ deleted_count = 0
  /\ backup_exists = FALSE
  /\ backup_files = [n \in Names |-> None]
  /\ copied = {}
  /\ outcome = [p \in Images |-> "none"]
  /\ result = NoResult
  /\ exception = "none"

\* A run starts in main() or with a direct call of process_duplicates.
Init ==
  /\ pc \in {"main", "call"}
  /\ root \in {"missing", "empty", "populated"}
  /\ delete \in BOOLEAN
  /\ backup_dir \in BOOLEAN
  /\ files = IF root = "populated" THEN Images ELSE {}
  /\ IdleLocals
  /\ sel_group = {}
  /\ sel_size = <<>>
  /\ sel_first = None
  /\ sel_second = None

\* main(): the input check and the confirmation prompt, before the call of
\* process_duplicates.  A missing directory is reported and main returns; a
\* deletion without backup that the user does not confirm is cancelled.
MainEntry ==
  /\ pc = "main"
  /\ IF root = "missing"
     THEN pc' = "main_exit"
     ELSE IF delete /\ ~backup_dir
     THEN \E confirm \in BOOLEAN : pc' = IF confirm THEN "call" ELSE "main_exit"
     ELSE pc' = "call"
  /\ UNCHANGED <<root, delete, backup_dir, all_images, duplicates, todo, visited,
                 stack, group, duplicate_groups, group_info, total_duplicates,
                 total_to_remove, gi, pending, deleted_count, files, backup_exists,
                 backup_files, copied, outcome, result, exception, selVars>>

\* process_duplicates, up to the early return for no image.
Scan ==
  /\ pc = "call"
  /\ LET found == FindAllImages(root)
     IN  IF found.raised
         THEN /\ pc' = "raised"
              /\ exception' = "FileNotFoundError"
              /\ UNCHANGED <<all_images, result>>
         ELSE IF Cardinality(found.images) = 0
         THEN /\ pc' = "returned"
              /\ result' = [status |-> "no_images"]
              /\ UNCHANGED <<all_images, exception>>
         ELSE /\ pc' = "find_duplicates"
              /\ all_images' = found.images
              /\ UNCHANGED <<result, exception>>
  /\ UNCHANGED <<root, delete, backup_dir, duplicates, todo, visited, stack, group,
                 duplicate_groups, group_info, total_duplicates, total_to_remove,
                 gi, pending, deleted_count, files, backup_exists, backup_files,
                 copied, outcome, selVars>>

\* find_duplicates: the oracle raises, or returns a duplicate map; then the
\* first lines of group_duplicates (graph, all_images, visited, groups).
FindDuplicates ==
  /\ pc = "find_duplicates"
  /\ \E raises \in BOOLEAN :
       IF raises
       THEN /\ pc' = "raised"
            /\ exception' = "OracleError"
            /\ UNCHANGED <<duplicates, todo>>
       ELSE /\ \E dups \in DuplicateMaps :
                 /\ duplicates' = dups
                 /\ todo' = GraphNodes(dups)
            /\ pc' = "group_for"
            /\ UNCHANGED exception
  /\ UNCHANGED <<root, delete, backup_dir, all_images, visited, stack, group,
                 duplicate_groups, group_info, total_duplicates, total_to_remove,
                 gi, pending, deleted_count, files, backup_exists, backup_files,
                 copied, outcome, result, selVars>>

\* group_duplicates: one iteration of "for image in all_images", up to the
\* while loop.
GroupFor ==
  /\ pc = "group_for"
  /\ \E image \in todo :
       /\ todo' = todo \ {image}
       /\ IF image \notin visited
          THEN /\ group' = {}
               /\ stack' = <<image>>
               /\ pc' = "group_while"
          ELSE UNCHANGED <<group, stack, pc>>
  /\ UNCHANGED <<root, delete, backup_dir, all_images, duplicates, visited,
                 duplicate_groups, group_info, total_duplicates, total_to_remove,
                 gi, pending, deleted_count, files, backup_exists, backup_files,
                 copied, outcome, result, exception, selVars>>

\* group_duplicates: one iteration of "while stack"; when it leaves the stack
\* empty, the loop ends and the group is kept when it has more than one member.
GroupWhile ==
  /\ pc = "group_while"
  /\ LET current == stack[Len(stack)]
         rest == SubSeq(stack, 1, Len(stack) - 1)
         fresh == current \notin visited
         visitedNow == IF fresh THEN visited \cup {current} ELSE visited
         groupNow == IF fresh THEN group \cup {current} ELSE group
         unvisited == IF fresh
                      THEN {neighbor \in Graph(duplicates)[current] :
                              neighbor \notin visitedNow}
                      ELSE {}
     IN  \E pushed \in Orders(unvisited) :
           /\ visited' = visitedNow
           /\ stack' = rest \o pushed
           /\ IF rest \o pushed # <<>>
              THEN /\ group' = groupNow
                   /\ UNCHANGED <<pc, duplicate_groups>>
              ELSE /\ duplicate_groups' = Emitted(duplicate_groups, groupNow)
                   /\ group' = {}
                   /\ pc' = "group_for"
  /\ UNCHANGED <<root, delete, backup_dir, all_images, duplicates, todo,
                 group_info, total_duplicates, total_to_remove,
                 gi, pending, deleted_count, files, backup_exists, backup_files,
                 copied, outcome, result, exception, selVars>>

\* group_duplicates returns; process_duplicates returns "no_duplicates" when
\* there is no group.
GroupReturn ==
  /\ pc = "group_for"
  /\ todo = {}
  /\ visited' = {}
  /\ IF duplicate_groups = <<>>
     THEN /\ pc' = "returned"
          /\ result' = [status |-> "no_duplicates",
                        total_images |-> Cardinality(all_images)]
     ELSE /\ pc' = "plan"
          /\ UNCHANGED result
  /\ UNCHANGED <<root, delete, backup_dir, all_images, duplicates, todo, stack,
                 group, duplicate_groups, group_info, total_duplicates,
                 total_to_remove, gi, pending, deleted_count, files, backup_exists,
                 backup_files, copied, outcome, exception, selVars>>

\* One iteration of "for i, group in enumerate(duplicate_groups, 1)": the
\* representative is selected from the sizes getsize gives at that moment, in
\* the order the group is iterated in.
PlanGroup ==
  /\ pc = "plan"
  /\ Len(group_info) < Len(duplicate_groups)
  /\ LET i == Len(group_info) + 1
         grp == duplicate_groups[i]
     IN  \E representative \in
               {select_representative(ord, size) :
                  ord \in Orders(grp), size \in [grp -> GetsizeResults]} :
           LET group_data == GroupData(i, grp, representative)
           IN  /\ group_info' = Append(group_info, group_data)
               /\ total_duplicates' = total_duplicates + Cardinality(grp)
               /\ total_to_remove' = total_to_remove + group_data.remove_count
  /\ UNCHANGED <<pc, root, delete, backup_dir, all_images, duplicates, todo,
                 visited, stack, group, duplicate_groups, gi, pending,
                 deleted_count, files, backup_exists, backup_files, copied, outcome,
                 result, exception, selVars>>

\* The result dictionary of a completed run (its fields that do not depend on
\* the clock or on the configuration); the report writer then runs and the
\* dictionary is returned.
\* The result with the remaining count taken from the grouped images only.
SuccessResultClusteredOnly(deleted) ==
  [status |-> "success",
   total_images |-> Cardinality(all_images),
   duplicate_groups |-> Len(duplicate_groups),
   total_duplicates |-> total_duplicates,
   total_to_remove |-> total_to_remove,
   remaining_images |-> total_duplicates - total_to_remove,
   groups |-> group_info,
   deleted |-> deleted]

SuccessResult(deleted) ==
  [status |-> "success",
   total_images |-> Cardinality(all_images),
   duplicate_groups |-> Len(duplicate_groups),
   total_duplicates |-> total_duplicates,
   total_to_remove |-> total_to_remove,
   remaining_images |-> Cardinality(all_images) - total_to_remove,
   groups |-> group_info,
   deleted |-> deleted]

\* The deletion loop entered whatever delete is, makedirs included.
BeginDeleteEager ==
  /\ pc = "plan"
  /\ Len(group_info) = Len(duplicate_groups)
  /\ backup_exists' = (backup_exists \/ backup_dir)
  /\ gi' = 1
  /\ pending' = group_info[1].duplicates
  /\ pc' = "delete"
  /\ UNCHANGED <<root, delete, backup_dir, all_images, duplicates, todo, visited,
                 stack, group, duplicate_groups, group_info, total_duplicates,
                 total_to_remove, deleted_count, files, backup_files, copied,
                 outcome, result, exception, selVars>>

\* "if delete:", makedirs of the backup directory (which may raise), and the
\* entry into the deletion loop; with delete unset, the result is built and
\* returned with deleted = 0.
BeginDelete ==
  /\ pc = "plan"
  /\ Len(group_info) = Len(duplicate_groups)
  /\ IF ~delete
     THEN /\ result' = SuccessResult(0)
          /\ pc' = "returned"
          /\ UNCHANGED <<backup_exists, gi, pending, exception>>
     ELSE \E makedirs_ok \in BOOLEAN :
            IF backup_dir /\ ~makedirs_ok
            THEN /\ pc' = "raised"
                 /\ exception' = "OSError"
                 /\ UNCHANGED <<backup_exists, gi, pending, result>>
            ELSE /\ backup_exists' = (backup_exists \/ backup_dir)
                 /\ gi' = 1
                 /\ pending' = group_info[1].duplicates
                 /\ pc' = "delete"
                 /\ UNCHANGED <<exception, result>>
  /\ UNCHANGED <<root, delete, backup_dir, all_images, duplicates, todo, visited,
                 stack, group, duplicate_groups, group_info, total_duplicates,
                 total_to_remove, deleted_count, files, backup_files, copied,
                 outcome, selVars>>

\* One iteration of "for img_path in group_data['duplicates']" (the tqdm and
\* the plain branch run the same try block): copy2 and remove each succeed or
\* fail; copy2 writes to backup_dir/basename(img_path).  After the last file of
\* an entry the loop goes on with the next entry; after the last entry the
\* loops are left, the result is built and returned.
DeleteFile ==
  /\ pc = "delete"
  /\ \E img_path \in pending, copy_ok \in BOOLEAN, remove_ok \in BOOLEAN :
       /\ (copy_ok \/ remove_ok) => img_path \in files
       /\ LET try == TryFile(backup_dir, copy_ok, remove_ok)
          IN  /\ copied' = IF try.copied THEN copied \cup {img_path} ELSE copied
              /\ backup_files' =
                   IF try.copied
                   THEN [backup_files EXCEPT ![basename(img_path)] = img_path]
                   ELSE backup_files
              /\ files' = IF try.removed THEN files \ {img_path} ELSE files
              /\ deleted_count' = IF try.removed THEN deleted_count + 1
                                  ELSE deleted_count
              /\ outcome' = [outcome EXCEPT ![img_path] =
                               IF try.removed THEN "removed"
                               ELSE IF backup_dir /\ ~try.copied THEN "copy_failed"
                               ELSE "remove_failed"]
              /\ IF ~try.caught
                 THEN /\ pc' = "raised"
                      /\ exception' = "FileError"
                      /\ UNCHANGED <<gi, pending, result>>
                 ELSE /\ UNCHANGED exception
                      /\ IF pending # {img_path}
                         THEN /\ pending' = pending \ {img_path}
                              /\ UNCHANGED <<gi, pc, result>>
                         ELSE IF gi < Len(group_info)
                         THEN /\ gi' = gi + 1
                              /\ pending' = group_info[gi + 1].duplicates
                              /\ UNCHANGED <<pc, result>>
                         ELSE /\ pending' = {}
                              /\ result' = SuccessResult(IF delete THEN deleted_count'
                                                         ELSE 0)
                              /\ pc' = "returned"
                              /\ UNCHANGED gi
  /\ UNCHANGED <<root, delete, backup_dir, all_images, duplicates, todo, visited,
                 stack, group, duplicate_groups, group_info, total_duplicates,
                 total_to_remove, backup_exists, selVars>>

Next ==
  \/ MainEntry
  \/ Scan
  \/ FindDuplicates
  \/ GroupFor
  \/ GroupWhile
  \/ GroupReturn
  \/ PlanGroup
  \/ BeginDelete
  \/ DeleteFile

Spec == Init /\ [][Next]_vars

\* ----------------------------------------- select_representative on its own
\* Any group of two or more images, and any sizes of its files.
InitRep ==
  /\ pc = "select"
  /\ root = "populated"
  /\ delete = FALSE
  /\ backup_dir = FALSE
  /\ files = Images
  /\ IdleLocals
  /\ sel_group \in {g \in SUBSET Images : Cardinality(g) >= 2}
  /\ sel_size \in [sel_group -> GetsizeResults]
  /\ sel_first = None
  /\ sel_second = None

\* A call of select_representative on the group.
SelectFirst ==
  /\ pc = "select"
  /\ sel_first = None
  /\ \E ord \in Orders(sel_group) : sel_first' = select_representative(ord, sel_size)
  /\ UNCHANGED <<procVars, sel_group, sel_size, sel_second>>

\* A second call, in another run, on the same group with the files unchanged.
SelectSecond ==
  /\ pc = "select"
  /\ sel_first # None
  /\ sel_second = None
  /\ \E ord \in Orders(sel_group) : sel_second' = select_representative(ord, sel_size)
  /\ UNCHANGED <<procVars, sel_group, sel_size, sel_first>>

NextRep == SelectFirst \/ SelectSecond

SpecRep == InitRep /\ [][NextRep]_vars

\* ------------------------------------- the deletion loop on files that are gone
\* The plans over the images of avail, the first entry numbered i: a list of
\* entries of pairwise disjoint groups of two or more images, each with one
\* of its members as representative.
RECURSIVE PlansFrom(_, _)
PlansFrom(avail, i) ==
  {<<>>} \cup
  UNION {{<<GroupData(i, grp, representative)>> \o rest :
            representative \in grp, rest \in PlansFrom(avail \ grp, i + 1)} :
         grp \in {g \in SUBSET avail : Cardinality(g) >= 2}}

\* The images of the entries of a plan, and those it lists for removal.
PlanMembers(plan) ==
  UNION {plan[i].duplicates \cup {plan[i].representative} : i \in 1..Len(plan)}

PlanRemovals(plan) == UNION {plan[i].duplicates : i \in 1..Len(plan)}

RECURSIVE PlanTotal(_)
PlanTotal(plan) ==
  IF plan = <<>> THEN 0 ELSE Head(plan).total_count + PlanTotal(Tail(plan))

\* process_duplicates at the entry of the deletion loop, with delete set and
\* makedirs done, for any plan, when every file the plan lists for removal is
\* already gone from the source directory: an earlier pass over the same plan,
\* or anyone else, removed them after the plan was made (the loop does not look
\* at the directory again before it starts).  The map is the one in which
\* every member of a group lists the other members.
InitRerun ==
  /\ pc = "delete"
  /\ root = "populated"
  /\ delete = TRUE
  /\ backup_dir \in BOOLEAN
  /\ all_images = Images
  /\ group_info \in PlansFrom(Images, 1) \ {<<>>}
  /\ duplicate_groups =
       [i \in 1..Len(group_info) |->
          group_info[i].duplicates \cup {group_info[i].representative}]
  /\ duplicates =
       [p \in Images |->
          UNION {duplicate_groups[i] \ {p} :
                   i \in {j \in 1..Len(duplicate_groups) : p \in duplicate_groups[j]}}]
  /\ todo = {}
  /\ visited = {}
  /\ stack = <<>>
  /\ group = {}
  /\ total_duplicates = PlanTotal(group_info)
  /\ total_to_remove = Cardinality(PlanRemovals(group_info))
  /\ gi = 1
  /\ pending = group_info[1].duplicates
  /\ deleted_count = 0
  /\ files = Images \ PlanRemovals(group_info)
  /\ backup_exists = backup_dir
  /\ backup_files = [n \in Names |-> None]
  /\ copied = {}
  /\ outcome = [p \in Images |-> "none"]
  /\ result = NoResult
  /\ exception = "none"
  /\ sel_group = {}
  /\ sel_size = <<>>
  /\ sel_first = None
  /\ sel_second = None

NextRerun == DeleteFile

SpecRerun == InitRerun /\ [][NextRerun]_vars

\* ------------------------------------------------------------------ claims
\* group_duplicates has just returned: duplicate_groups is its result for
\* duplicates (neither changes later in the run).
GroupsReturned ==
  \/ pc = "plan" /\ group_info = <<>>
  \/ pc = "returned" /\ result.status = "no_duplicates"

\* The indices of the returned groups that hold img.
GroupsOf(img) == {i \in 1..Len(duplicate_groups) : img \in duplicate_groups[i]}

\* a and b are joined by a duplicate edge, in either direction.
Edge(a, b) == b \in duplicates[a] \/ a \in duplicates[b]

\* The images joined to an image of S by a path of duplicate edges.
RECURSIVE Closure(_)
Closure(S) ==
  LET T == S \cup {b \in Images : \E a \in S : Edge(a, b)}
  IN  IF T = S THEN S ELSE Closure(T)

PairwiseDisjoint ==
  \A i, j \in 1..Len(duplicate_groups) :
    i # j => duplicate_groups[i] \cap duplicate_groups[j] = {}

\* C1, as stated: the returned groups are pairwise disjoint, and every image
\* that is a key with a non-empty list or a member of such a list is in exactly
\* one returned group.
C1_PartitionAllNodes ==
  GroupsReturned =>
    /\ PairwiseDisjoint
    /\ \A img \in GraphNodes(duplicates) : Cardinality(GroupsOf(img)) = 1

\* C1, amended: the returned groups are pairwise disjoint; an image with a
\* duplicate edge to an image other than itself is in exactly one returned
\* group, and every other image (one whose only duplicate edge joins it to
\* itself, or one with no edge) is in none.
C1_Partition ==
  GroupsReturned =>
    /\ PairwiseDisjoint
    /\ \A img \in Images :
         Cardinality(GroupsOf(img)) =
           IF \E other \in Images \ {img} : Edge(img, other) THEN 1 ELSE 0

\* An image lists itself as its only duplicate, beside a pair that forms a group.
C1_Witness ==
  /\ GroupsReturned
  /\ Len(duplicate_groups) = 1
  /\ \E img \in Images :
       /\ duplicates[img] = {img}
       /\ \A m \in Images \ {img} : img \notin duplicates[m]

\* C2: two distinct images are in the same returned group exactly when a path
\* of duplicate edges, each taken in either direction, joins them, in whatever
\* order the sets are iterated.
C2_ConnectedComponents ==
  GroupsReturned =>
    \A a, b \in Images :
      a # b => ((GroupsOf(a) \cap GroupsOf(b) # {}) <=> (b \in Closure({a})))

\* The chain {A: [B], B: [C]} with C listing nothing: one group {A, B, C}.
C2_Witness ==
  /\ GroupsReturned
  /\ \E a, b, c \in Images :
       /\ a # b /\ b # c /\ a # c
       /\ duplicates[a] = {b}
       /\ duplicates[b] = {c}
       /\ duplicates[c] = {}
       /\ duplicate_groups = <<{a, b, c}>>

\* C3: with delete set and a backup directory, a file whose copy failed is still
\* in the source directory and is not counted, and every file removed has been
\* copied before.
C3_BackupBeforeDelete ==
  (delete /\ backup_dir /\ root = "populated") =>
    /\ \A f \in Images : outcome[f] = "copy_failed" => f \in files
    /\ \A f \in Images : f \notin files => f \in copied
    /\ deleted_count = Cardinality(Images \ files)
    /\ deleted_count = Cardinality({f \in Images : outcome[f] = "removed"})

\* A run that returned after one copy failed and another file was removed.
C3_Witness ==
  /\ delete /\ backup_dir
  /\ pc = "returned"
  /\ \E f, g \in Images : outcome[f] = "copy_failed" /\ outcome[g] = "removed"

\* C4, as stated: after a run with a backup directory, the backup directory
\* holds the copy of every file that was removed.
C4_BackupOfEveryRemoved ==
  (pc = "returned" /\ delete /\ backup_dir) =>
    \A f \in Images : outcome[f] = "removed" => backup_files[basename(f)] = f

\* C6: every group entry has its representative in the group, its duplicates
\* are the group without the representative, and remove_count = total_count - 1.
C6_RemovalCompleteness ==
  \A i \in 1..Len(group_info) :
    LET e == group_info[i]
        grp == duplicate_groups[i]
    IN  /\ e.representative \in grp
        /\ e.duplicates \cup {e.representative} = grp
        /\ e.representative \notin e.duplicates
        /\ e.total_count = Cardinality(grp)
        /\ e.remove_count = Cardinality(e.duplicates)
        /\ e.remove_count = e.total_count - 1

\* A returned result that holds the entry of a group of three.
C6_Witness ==
  /\ pc = "returned"
  /\ result.status = "success"
  /\ \E i \in 1..Len(result.groups) : result.groups[i].total_count = 3

C8_NoExceptionOnMissingInput ==
  root \in {"missing", "empty"} => pc # "raised"

\* C8, amended: with a root that exists and holds no image, process_duplicates
\* returns {"status": "no_images"} and raises nothing; with a missing root,
\* process_duplicates raises FileNotFoundError and returns no status, and
\* main() returns without calling it.
C8_MissingInput ==
  /\ (root = "empty" /\ pc \notin {"main", "call", "main_exit"}) =>
       (pc = "returned" /\ result = [status |-> "no_images"] /\ exception = "none")
  /\ (root = "missing" /\ pc \notin {"main", "call", "main_exit"}) =>
       (pc = "raised" /\ exception = "FileNotFoundError" /\ result = NoResult)

\* process_duplicates returned "no_images" for an existing root without image.
C8_Witness ==
  /\ root = "empty"
  /\ pc = "returned"
  /\ result.status = "no_images"

\* C9: with delete unset, no file is removed, none is copied, the backup
\* directory is not created, and a "success" result reports deleted = 0.
C9_NoExecutionUnlessRequested ==
  ~delete =>
    /\ files = (IF root = "populated" THEN Images ELSE {})
    /\ copied = {}
    /\ backup_files = [n \in Names |-> None]
    /\ ~backup_exists
    /\ \A f \in Images : outcome[f] = "none"
    /\ (result.status = "success" => result.deleted = 0)

\* A run with delete unset and a backup directory given that planned removals.
C9_Witness ==
  /\ ~delete
  /\ backup_dir
  /\ pc = "returned"
  /\ result.status = "success"
  /\ result.total_to_remove > 0

\* C5, as stated: the representative is a member whose size is the largest
\* among the members whose size can be read, and is a member whose size
\* cannot be read only when no size can be read.
C5_LargestReadable ==
  sel_first # None =>
    LET readable == {m \in sel_group : sel_size[m].ok}
    IN  /\ sel_first \in sel_group
        /\ readable # {} =>
             /\ sel_first \in readable
             /\ \A m \in readable : sel_size[m].size <= sel_size[sel_first].size

\* C10, as stated: two calls on the same group with the files unchanged return
\* the same image, whatever the iteration orders.
C10_SameRepresentative ==
  (sel_first # None /\ sel_second # None) => sel_first = sel_second

\* C11: every group returned by group_duplicates, and every group collected
\* while it runs, has at least two members.
C11_MinimumClusterSize ==
  \A i \in 1..Len(duplicate_groups) : Cardinality(duplicate_groups[i]) >= 2

\* group_duplicates returned the single group {a, b} for a map in which a
\* lists itself and b.
C11_Witness ==
  /\ GroupsReturned
  /\ \E a, b \in Images :
       /\ a # b
       /\ a \in duplicates[a]
       /\ b \in duplicates[a]
       /\ duplicate_groups = <<{a, b}>>

\* C12: the deletion loop run over a plan whose files are all gone raises
\* nothing and can always go on, removes and copies nothing, counts nothing,
\* and returns with every planned file failed and deleted = 0, with and
\* without a backup directory.
C12_RerunOnMissingFiles ==
  /\ pc \in {"delete", "returned"}
  /\ exception = "none"
  /\ (pc = "delete" => pending # {} /\ ENABLED DeleteFile)
  /\ deleted_count = 0
  /\ files = Images \ PlanRemovals(group_info)
  /\ copied = {}
  /\ backup_files = [n \in Names |-> None]
  /\ \A f \in Images :
       /\ outcome[f] # "removed"
       /\ outcome[f] # "none" => f \in PlanRemovals(group_info)
  /\ pc = "returned" =>
       /\ result.status = "success"
       /\ result.deleted = 0
       /\ \A f \in PlanRemovals(group_info) :
            outcome[f] = (IF backup_dir THEN "copy_failed" ELSE "remove_failed")

\* The loop returned after it failed on every file of a plan of two entries,
\* with a backup directory.
C12_Witness ==
  /\ pc = "returned"
  /\ backup_dir
  /\ Len(group_info) = 2
  /\ \A f \in PlanRemovals(group_info) : outcome[f] = "copy_failed"
  /\ files \cap PlanRemovals(group_info) = {}

\* The sum of the sizes of the groups of a list, and the sum of size - 1.
RECURSIVE SumOfSizes(_)
SumOfSizes(groups) ==
  IF groups = <<>> THEN 0
  ELSE Cardinality(Head(groups)) + SumOfSizes(Tail(groups))

RECURSIVE SumOfExtras(_)
SumOfExtras(groups) ==
  IF groups = <<>> THEN 0
  ELSE (Cardinality(Head(groups)) - 1) + SumOfExtras(Tail(groups))

\* The number of images the scan of the root finds.
ScannedCount == Cardinality(FindAllImages(root).images)

\* The counters of a "success" result are the sums over the groups, and
\* remaining_images is the scanned total minus total_to_remove.
SuccessCounters ==
  (pc = "returned" /\ result.status = "success") =>
    /\ result.total_duplicates = SumOfSizes(duplicate_groups)
    /\ result.total_to_remove = SumOfExtras(duplicate_groups)
    /\ result.total_images = ScannedCount
    /\ result.remaining_images = result.total_images - result.total_to_remove

\* process_duplicates returned after group_duplicates gave no group.
ReturnedNoGroup ==
  pc = "returned" /\ all_images # {} /\ duplicate_groups = <<>>

\* C13 as stated: the counters of a "success" result, and a run with no group
\* returns "no_duplicates" with a remaining count equal to the scanned total.
C13_RemainingWhenNoGroup ==
  /\ SuccessCounters
  /\ ReturnedNoGroup =>
       /\ result.status = "no_duplicates"
       /\ "remaining_images" \in DOMAIN result
       /\ result.remaining_images = ScannedCount

\* C13: the counters of a "success" result are the sums over the groups with
\* remaining_images = total_images - total_to_remove over the scanned total;
\* a run with no group returns only the status "no_duplicates" and
\* total_images, the scanned total, and leaves every scanned file in place.
C13_RunCounters ==
  /\ SuccessCounters
  /\ ReturnedNoGroup =>
       /\ result = [status |-> "no_duplicates", total_images |-> ScannedCount]
       /\ total_to_remove = 0
       /\ Cardinality(files) = ScannedCount
  /\ (pc = "returned" /\ result.status = "no_duplicates") => ReturnedNoGroup

\* A "success" result of a run in which an image is in no group and two
\* images are listed for removal.
C13_Witness ==
  /\ pc = "returned"
  /\ result.status = "success"
  /\ result.total_duplicates < result.total_images
  /\ result.total_to_remove >= 2
  /\ result.remaining_images = result.total_images - 2

\* C14: the representative of every planned group is a member of its group,
\* is listed for removal in no group, is never handled by the deletion loop
\* and stays in the source directory, whatever the copies and removals do.
C14_RepresentativesSurvive ==
  \A i \in 1..Len(group_info) :
    LET representative == group_info[i].representative
    IN  /\ representative \in duplicate_groups[i]
        /\ \A j \in 1..Len(group_info) :
             representative \notin group_info[j].duplicates
        /\ outcome[representative] = "none"
        /\ representative \in files
        /\ duplicate_groups[i] \cap files # {}

\* The deletion loop returned after it removed every listed file of two
\* groups, and the two representatives are still there.
C14_Witness ==
  /\ pc = "returned"
  /\ delete
  /\ Len(group_info) = 2
  /\ result.deleted = 2
  /\ \A i \in 1..2 :
       /\ group_info[i].representative \in files
       /\ group_info[i].duplicates \cap files = {}

====
